---- MODULE Spec2Model ----
(***************************************************************************)
(* Model of the SumoLogicCSE client (src/src/sumologiccse/sumologiccse.py): *)
(* the transport methods (get, post, put, delete, post_file) with           *)
(* _handle_response, the single-page fetchers, and the pagination           *)
(* aggregators get_insights, query_insights and query_rules.                *)
(*                                                                          *)
(* One client issues one facade call at a time.  A call that pages is one   *)
(* action per evaluation of its while condition: either the loop is left    *)
(* and the list returned, or one whole iteration runs (one HTTP exchange,   *)
(* parsing, accumulation, cursor update).  The HTTP collaborator is the     *)
(* environment: each exchange is a nondeterministic choice of a network     *)
(* failure or of a response (status code and body).                         *)
(*                                                                          *)
(* The constructor with _validate_endpoint, the single-request facade       *)
(* methods (fetchers, by-ID getters, the two state-mutating methods) and    *)
(* the loop of scripts/insights/resolve_insights.py are modelled as well;   *)
(* each has a specification of its own next to Spec.                        *)
(***************************************************************************)
EXTENDS Integers, Sequences, FiniteSets, TLC

VARIABLES
    pc,               \* "idle" | "loop" | "done" | "failed": position of the current call
    op,               \* the facade or transport method being run
    server,           \* how the page source picks the records of a page
    limit,            \* argument limit of query_insights / query_rules
    max_pages,        \* argument max_pages of get_insights
    insights,         \* local accumulator of get_insights / query_insights
    rules,            \* local accumulator of query_rules
    pages,            \* local: page counter (get_insights), offset (query_*)
    batchsize,        \* local of query_*
    remaining,        \* local of query_*
    next_page_token,  \* local of get_insights
    requests,         \* history: the requests handed to the HTTP collaborator by this call
    fetched,          \* history: the pages parsed out of the successful exchanges of this call
    http,             \* history: the last HTTP exchange of this call
    result,           \* the list returned to the caller (pc = "done")
    err,              \* the exception that reached the caller (pc = "failed")
    q,                \* argument q of get_insights / query_insights / query_rules
    offset,           \* argument offset of query_insights / query_rules
    other,            \* the locals of a second call on the client, while it does not run
    returned,         \* the parsed body returned by a single-request facade call
    self,             \* the client object: endpoint, session.auth, DEFAULT_VERSION
    construction,     \* history: the arguments and the outcome of the constructor call
    collection,       \* number of records the well-behaved page source holds
    invoked,          \* history: invocations of each state-mutating facade method
    issued,           \* history: HTTP requests issued by each state-mutating facade method
    script            \* the resolve_insights script: its arguments, locals and position

vars == <<pc, op, server, limit, max_pages, insights, rules, pages, batchsize,
          remaining, next_page_token, requests, fetched, http, result, err,
          q, offset, other, returned, self, construction, collection, invoked, issued,
          script>>

(* What a paging call, a transport call and the end of a call leave alone.  *)
outside == <<other, self, construction, collection, invoked, issued, script>>

-----------------------------------------------------------------------------
(* Bounds of the model.                                                     *)

MaxLimit == 42
MaxPages == 4
MaxPageRecords == 2
MaxExactLimit == 101
MaxCalls == 3
MaxScriptInsights == 3
MaxCollection == 45
MaxCollectionLimit == 50
MaxOffset == 21
MaxSmallLimit == 23

(* Program constants.                                                       *)

InsightsPageCap == 20
RulesPageCap == 20

-----------------------------------------------------------------------------
(* HTTP exchanges.  A body is described by what the code inspects of it:    *)
(* whether it is empty, whether it parses as JSON and to which JSON type,   *)
(* whether the parsed value contains "message" / "error" (a key of an       *)
(* object, an element of an array, a substring of a string), and its "data" *)
(* member when it is an object that has one.                                *)

None == "None"
NoStatus == -1

NoData == [present |-> FALSE]

Text(json, hasMessage, hasError, data) ==
    [json |-> json, hasMessage |-> hasMessage, hasError |-> hasError, data |-> data]

NoText == Text("None", FALSE, FALSE, NoData)

ErrorTexts ==
    {Text("empty", FALSE, FALSE, NoData), Text("invalid", FALSE, FALSE, NoData),
     Text("scalar", FALSE, FALSE, NoData)}
    \cup {Text(j, m, e, NoData) : j \in {"object", "array", "string"},
                                  m \in BOOLEAN, e \in BOOLEAN}

Statuses == {200, 204, 302, 399, 400, 401, 403, 404, 500, 599, 600}

Response(status_code, text) ==
    [net |-> "response", status_code |-> status_code, text |-> text]

NetworkFailure == [net |-> "failure", status_code |-> NoStatus, text |-> NoText]

NoExchange == [net |-> "none", status_code |-> NoStatus, text |-> NoText]

(* Exceptions and normal returns of the transport layer.                    *)

Raise(type, status_code, response_text) ==
    [raised |-> type, status_code |-> status_code, response_text |-> response_text,
     value |-> NoText]

(* A returned value: for a transport method the response (its text), for a   *)
(* fetcher the parsed JSON value.                                           *)
Return(value) ==
    [raised |-> "none", status_code |-> NoStatus, response_text |-> NoText,
     value |-> value]

-----------------------------------------------------------------------------
(* Transport primitive.                                                     *)

(* _handle_response with the 401 test placed after the generic test of       *)
(* [400,600): a 401 is then reported like any other client error.           *)
handle_response_401_after_range(r) ==
    IF r.status_code = 403 THEN Raise("APIError", r.status_code, r.text)
    ELSE IF 400 <= r.status_code /\ r.status_code < 600 THEN
        IF r.text.json \in {"empty", "invalid"}
        THEN Raise("APIError", r.status_code, r.text)
        ELSE IF r.text.json = "scalar" THEN Raise("TypeError", NoStatus, NoText)
        ELSE IF r.text.hasMessage \/ r.text.hasError THEN
            IF r.text.json = "object"
            THEN Raise("APIError", r.status_code, r.text)
            ELSE Raise("TypeError", NoStatus, NoText)
        ELSE Raise("APIError", r.status_code, r.text)
    ELSE IF r.status_code = 401 THEN Raise("AuthenticationError", NoStatus, NoText)
    ELSE Return(r.text)

(* _handle_response: 401, then 403, then the other statuses of [400,600).   *)
(* In the last branch response.json() raising ValueError is caught; the     *)
(* membership tests and subscripts on the parsed value are not guarded, so  *)
(* a parsed value that is no object raises TypeError when tested (scalar)   *)
(* or when subscripted after a positive test (array, string).               *)
handle_response(r) ==
    IF r.status_code = 401 THEN Raise("AuthenticationError", NoStatus, NoText)
    ELSE IF r.status_code = 403 THEN Raise("APIError", r.status_code, r.text)
    ELSE IF 400 <= r.status_code /\ r.status_code < 600 THEN
        IF r.text.json \in {"empty", "invalid"}
        THEN Raise("APIError", r.status_code, r.text)
        ELSE IF r.text.json = "scalar" THEN Raise("TypeError", NoStatus, NoText)
        ELSE IF r.text.hasMessage \/ r.text.hasError THEN
            IF r.text.json = "object"
            THEN Raise("APIError", r.status_code, r.text)
            ELSE Raise("TypeError", NoStatus, NoText)
        ELSE Raise("APIError", r.status_code, r.text)
    ELSE Return(r.text)

(* get / delete: a RequestException of the session call becomes APIError.   *)
get(x) ==
    IF x.net = "failure" THEN Raise("APIError", NoStatus, NoText)
    ELSE handle_response(x)

delete(x) ==
    IF x.net = "failure" THEN Raise("APIError", NoStatus, NoText)
    ELSE handle_response(x)

(* post / put: json.dumps and _handle_response run inside one try whose     *)
(* first handler turns TypeError and ValueError into DataError.             *)
post(encodable, x) ==
    IF ~encodable THEN Raise("DataError", NoStatus, NoText)
    ELSE IF x.net = "failure" THEN Raise("APIError", NoStatus, NoText)
    ELSE LET out == handle_response(x)
         IN  IF out.raised \in {"TypeError", "ValueError"}
             THEN Raise("DataError", NoStatus, NoText)
             ELSE out

put(encodable, x) ==
    IF ~encodable THEN Raise("DataError", NoStatus, NoText)
    ELSE IF x.net = "failure" THEN Raise("APIError", NoStatus, NoText)
    ELSE LET out == handle_response(x)
         IN  IF out.raised \in {"TypeError", "ValueError"}
             THEN Raise("DataError", NoStatus, NoText)
             ELSE out

(* post_file: parameter check and file read come before the request.       *)
post_file(paramsPresent, fileReadable, x) ==
    IF ~paramsPresent THEN Raise("DataError", NoStatus, NoText)
    ELSE IF ~fileReadable THEN Raise("DataError", NoStatus, NoText)
    ELSE IF x.net = "failure" THEN Raise("APIError", NoStatus, NoText)
    ELSE handle_response(x)

Methods == {"get", "delete", "post", "put", "post_file"}

(* Whether the method reaches the HTTP collaborator at all.                 *)
Sends(m, encodable, paramsPresent, fileReadable) ==
    CASE m \in {"post", "put"} -> encodable
      [] m = "post_file" -> paramsPresent /\ fileReadable
      [] OTHER -> TRUE

Transport(m, encodable, paramsPresent, fileReadable, x) ==
    CASE m = "get" -> get(x)
      [] m = "delete" -> delete(x)
      [] m = "post" -> post(encodable, x)
      [] m = "put" -> put(encodable, x)
      [] m = "post_file" -> post_file(paramsPresent, fileReadable, x)

-----------------------------------------------------------------------------
(* Parsing and single-page fetchers.                                        *)

EmptyMapping == Text("object", FALSE, FALSE, NoData)

safe_json_parse(text) ==
    IF text.json = "empty" THEN Return(EmptyMapping)
    ELSE IF text.json = "invalid" THEN Raise("DataError", NoStatus, NoText)
    ELSE Return(text)

json_loads(text) ==
    IF text.json \in {"empty", "invalid"}
    THEN Raise("JSONDecodeError", NoStatus, NoText)
    ELSE Return(text)

get_insights_all(x) ==
    LET response == get(x)
    IN  IF response.raised # "none" THEN response
        ELSE safe_json_parse(response.value)

get_insights_list(x) ==
    LET response == get(x)
    IN  IF response.raised # "none" THEN response
        ELSE json_loads(response.value)

get_rules(x) ==
    LET response == get(x)
    IN  IF response.raised # "none" THEN response
        ELSE json_loads(response.value)

(* i["data"]["objects"] on a parsed value: KeyError on a mapping without    *)
(* "data", TypeError on a value that is no mapping.                         *)
Subscript(i) ==
    IF i.raised # "none" THEN i
    ELSE IF i.value.json # "object" THEN Raise("TypeError", NoStatus, NoText)
    ELSE IF ~i.value.data.present THEN Raise("KeyError", NoStatus, NoText)
    ELSE i

-----------------------------------------------------------------------------
(* The page source.  The records of a page are consecutive record ids; a    *)
(* "window" source serves the ids from the requested position on, a         *)
(* "repeat" source serves the first ids of the collection again on every    *)
(* page.  How many records a page holds and what it says about a next page  *)
(* is free.                                                                 *)

Servers == {"window", "repeat"}

Tokens == {"A", "B"}

PageObjects(start, n) == [k \in 1..n |-> start + k - 1]

TokenPage(objects, nextPageToken) ==
    [present |-> TRUE, objects |-> objects, nextPageToken |-> nextPageToken]

OffsetPage(objects, hasNextPage) ==
    [present |-> TRUE, objects |-> objects, hasNextPage |-> hasNextPage]

Ok(data) == Response(200, Text("object", FALSE, FALSE, data))

RECURSIVE Flatten(_)
Flatten(ps) ==
    IF ps = <<>> THEN <<>> ELSE Flatten(SubSeq(ps, 1, Len(ps) - 1)) \o ps[Len(ps)].objects

(* Record counts a page source answers a request of size bs with: nothing,  *)
(* one record (short when bs > 1), the size asked for, one more than asked  *)
(* for.                                                                     *)
ReturnCounts(bs) == {n \in {0, 1, bs, bs + 1} : n >= 0}

(* Exchanges that make a page fetch fail, or succeed without a page.        *)
PageFailureTexts ==
    {Text("object", TRUE, FALSE, NoData), Text("scalar", FALSE, FALSE, NoData)}

FailingExchanges ==
    {NetworkFailure}
    \cup {Response(s, Text("object", TRUE, FALSE, NoData)) : s \in {401, 403}}
    \cup {Response(500, t) : t \in PageFailureTexts}
    \cup {Response(200, t) : t \in {Text("empty", FALSE, FALSE, NoData),
                                    Text("invalid", FALSE, FALSE, NoData),
                                    Text("object", FALSE, FALSE, NoData)}}

TokenExchanges ==
    LET start == IF server = "window" THEN Len(Flatten(fetched)) ELSE 0
    IN  {Ok(TokenPage(PageObjects(start, n), t)) :
            n \in 0..MaxPageRecords, t \in Tokens \cup {None}}
        \cup FailingExchanges

OffsetExchanges ==
    LET start == IF server = "window" THEN pages ELSE 0
    IN  {Ok(OffsetPage(PageObjects(start, n), h)) :
            n \in ReturnCounts(batchsize), h \in BOOLEAN}
        \cup FailingExchanges

TransportExchanges ==
    {NetworkFailure} \cup {Response(s, t) : s \in Statuses, t \in ErrorTexts}

-----------------------------------------------------------------------------
(* The constructor and _validate_endpoint.  The code inspects the           *)
(* characters of an endpoint, so an endpoint string is the sequence of its  *)
(* characters.                                                              *)

DefaultEndpoint ==
    <<"h", "t", "t", "p", "s", ":", "/", "/", "a", "p", "i", ".", "s", "u", "m", "o", "l", "o",
        "g", "i", "c", ".", "c", "o", "m", "/", "a", "p", "i", "/", "s", "e", "c">>

RegionPrefix == <<"h", "t", "t", "p", "s", ":", "/", "/", "a", "p", "i", ".">>

RegionSuffix ==
    <<".", "s", "u", "m", "o", "l", "o", "g", "i", "c", ".", "c", "o", "m", "/", "a", "p", "i",
        "/", "s", "e", "c">>

RegionCodes == {<<"a", "u">>, <<"f", "r", "a">>, <<"m", "u", "m">>, <<"u", "s", "2">>, <<"m",
    "o", "n">>, <<"d", "u", "b">>, <<"t", "k", "y">>}

DefaultCodes == {<<"p", "r", "o", "d">>, <<"u", "s", "1">>}

Slash == <<"/">>

Https == <<"h", "t", "t", "p", "s", ":", "/", "/">>

Http == <<"h", "t", "t", "p", ":", "/", "/">>

(* The endpoint argument: absent (None) or a string.                        *)
NoEndpoint == [present |-> FALSE]

Endpoint(chars) == [present |-> TRUE, chars |-> chars]

startswith(s, prefix) ==
    Len(s) >= Len(prefix) /\ SubSeq(s, 1, Len(prefix)) = prefix

endswith(s, suffix) ==
    Len(s) >= Len(suffix) /\ SubSeq(s, Len(s) - Len(suffix) + 1, Len(s)) = suffix

(* re.match(r"^(a|b|...)$", s).  In Python "$" matches at the end of the    *)
(* string and also just before a newline that ends the string.              *)
re_match(alternatives, s) ==
    \/ s \in alternatives
    \/ /\ Len(s) > 0
       /\ s[Len(s)] = "\n"
       /\ SubSeq(s, 1, Len(s) - 1) \in alternatives

(* The rewriting part of _validate_endpoint.                                *)
resolve_endpoint(endpoint) ==
    IF ~endpoint.present THEN DefaultEndpoint
    ELSE IF re_match(RegionCodes, endpoint.chars)
         THEN RegionPrefix \o endpoint.chars \o RegionSuffix
    ELSE IF re_match(DefaultCodes, endpoint.chars) THEN DefaultEndpoint
    ELSE endpoint.chars

(* The scheme of the resolved endpoint not checked.                         *)
validate_endpoint_without_scheme_check(endpoint) ==
    LET resolved == resolve_endpoint(endpoint)
    IN  IF endswith(resolved, Slash)
        THEN Raise("ConfigurationError", NoStatus, NoText)
        ELSE Return(resolved)

validate_endpoint(endpoint) ==
    LET resolved == resolve_endpoint(endpoint)
    IN  IF endswith(resolved, Slash)
        THEN Raise("ConfigurationError", NoStatus, NoText)
        ELSE IF ~(startswith(resolved, Https) \/ startswith(resolved, Http))
        THEN Raise("ConfigurationError", NoStatus, NoText)
        ELSE Return(resolved)

(* "not accessId": the credential is absent or the empty string.            *)
Missing(credential) == credential \in {None, ""}

Client(endpoint, accessId, accessKey) ==
    [present |-> TRUE, endpoint |-> endpoint, auth |-> <<accessId, accessKey>>,
     DEFAULT_VERSION |-> "v1"]

NoClient == [present |-> FALSE]

(* The endpoint validated before the credentials are looked at.             *)
SumoLogicCSE_endpoint_first(accessId, accessKey, endpoint) ==
    LET e == validate_endpoint(endpoint)
    IN  IF e.raised # "none" THEN e
        ELSE IF Missing(accessId) \/ Missing(accessKey)
        THEN Raise("AuthenticationError", NoStatus, NoText)
        ELSE Return(Client(e.value, accessId, accessKey))

(* SumoLogicCSE.__init__.  Setting up the session touches no collaborator   *)
(* that fails: a cookie jar that cannot be set up is logged and skipped.    *)
SumoLogicCSE(accessId, accessKey, endpoint) ==
    IF Missing(accessId) \/ Missing(accessKey)
    THEN Raise("AuthenticationError", NoStatus, NoText)
    ELSE LET e == validate_endpoint(endpoint)
         IN  IF e.raised # "none" THEN e
             ELSE Return(Client(e.value, accessId, accessKey))

(* The arguments a caller constructs a client with.                         *)
Credentials == {None, "", "su123"}

EndpointStrings ==
    RegionCodes \cup DefaultCodes
    \cup {<<>>,
          <<"/">>,
          <<"a", "u", "\n">>,
          <<"p", "r", "o", "d", "\n">>,
          <<"a", "u", "\n", "\n">>,
          <<"a", "u", "s">>,
          <<"x", "a", "u">>,
          <<"a", "u", "/">>,
          <<"A", "U">>,
          <<"u", "s", "1", "x">>,
          <<"p", "r", "o", "d", "u", "c", "t", "i", "o", "n">>,
          <<"h", "t", "t", "p", "s", ":", "/", "/", "a", "p", "i", ".", "a", "u", ".", "s",
              "u", "m", "o", "l", "o", "g", "i", "c", ".", "c", "o", "m", "/", "a", "p", "i",
                  "/", "s", "e", "c">>,
          <<"h", "t", "t", "p", "s", ":", "/", "/", "a", "p", "i", ".", "s", "u", "m", "o",
              "l", "o", "g", "i", "c", ".", "c", "o", "m", "/", "a", "p", "i", "/", "s", "e", "c">>,
          <<"h", "t", "t", "p", "s", ":", "/", "/", "a", "p", "i", ".", "s", "u", "m", "o",
              "l", "o", "g", "i", "c", ".", "c", "o", "m", "/", "a", "p", "i", "/", "s", "e",
                  "c", "/">>,
          <<"h", "t", "t", "p", ":", "/", "/", "l", "o", "c", "a", "l", "h", "o", "s", "t">>,
          <<"h", "t", "t", "p", ":", "/", "/", "l", "o", "c", "a", "l", "h", "o", "s", "t", "/">>,
          <<"h", "t", "t", "p", "s", ":", "/", "/">>,
          <<"h", "t", "t", "p", ":", "/", "h", "o", "s", "t">>,
          <<"f", "t", "p", ":", "/", "/", "h", "o", "s", "t">>,
          <<"H", "T", "T", "P", "S", ":", "/", "/", "h", "o", "s", "t">>,
          <<"a", "p", "i", ".", "s", "u", "m", "o", "l", "o", "g", "i", "c", ".", "c", "o", "m">>,
          <<" ", "h", "t", "t", "p", "s", ":", "/", "/", "h", "o", "s", "t">>,
          <<"h", "t", "t", "p", ":", "/", "/">>}

EndpointArguments == {NoEndpoint} \cup {Endpoint(chars) : chars \in EndpointStrings}

NoConstruction ==
    [called |-> FALSE, accessId |-> None, accessKey |-> None, endpoint |-> NoEndpoint,
     raised |-> "none"]

Construction(accessId, accessKey, endpoint, out) ==
    [called |-> TRUE, accessId |-> accessId, accessKey |-> accessKey,
     endpoint |-> endpoint, raised |-> out.raised]

(* ---- the URL of a request ---------------------------------------------- *)

(* The characters of the version and path strings of the model.             *)
Chars(s) ==
    CASE s = "v1" ->
            <<"v", "1">>
      [] s = "v2" ->
            <<"v", "2">>
      [] s = "/" ->
            <<"/">>
      [] s = "/insights/all" ->
            <<"/", "i", "n", "s", "i", "g", "h", "t", "s", "/", "a", "l", "l">>
      [] s = "/insights" ->
            <<"/", "i", "n", "s", "i", "g", "h", "t", "s">>
      [] s = "/rules" ->
            <<"/", "r", "u", "l", "e", "s">>
      [] s = "/insights/{insight_id}" ->
            <<"/", "i", "n", "s", "i", "g", "h", "t", "s", "/", "{", "i", "n", "s", "i", "g",
                "h", "t", "_", "i", "d", "}">>
      [] s = "/rules/{rule_id}" ->
            <<"/", "r", "u", "l", "e", "s", "/", "{", "r", "u", "l", "e", "_", "i", "d", "}">>
      [] s = "/insights/{insight_id}/status" ->
            <<"/", "i", "n", "s", "i", "g", "h", "t", "s", "/", "{", "i", "n", "s", "i", "g",
                "h", "t", "_", "i", "d", "}", "/", "s", "t", "a", "t", "u", "s">>
      [] s = "/insights/{insight_id}/comments" ->
            <<"/", "i", "n", "s", "i", "g", "h", "t", "s", "/", "{", "i", "n", "s", "i", "g",
                "h", "t", "_", "i", "d", "}", "/", "c", "o", "m", "m", "e", "n", "t", "s">>

(* The versions a caller of a transport method passes: none, or one.        *)
Versions == {None, "v2"}

(* version or self.DEFAULT_VERSION                                          *)
version_or_default(version) ==
    IF version \in {None, ""} THEN self.DEFAULT_VERSION ELSE version

(* The version appended to the endpoint without the "/" between them.       *)
get_versioned_endpoint_without_slash(version) == self.endpoint \o Chars(version)

get_versioned_endpoint(version) == self.endpoint \o Slash \o Chars(version)

(* endpoint + method, the URL handed to the session.                        *)
Url(version, method) ==
    get_versioned_endpoint(version_or_default(version)) \o Chars(method)

(* The state-mutating facade methods and their counters.  An invocation is  *)
(* counted by method and by whether its arguments can be encoded as JSON.   *)
Mutators == {"update_insight_resolution_status", "add_insight_comment"}

NoInvocations == [k \in Mutators \X BOOLEAN |-> 0]

NoRequests == [m \in Mutators |-> 0]

(* The script before it is started.                                         *)
NoScript ==
    [pc |-> "none", no_dryrun |-> FALSE, dryrun |-> TRUE, limit |-> 0,
     sorted_insights |-> <<>>, n |-> 0]

-----------------------------------------------------------------------------
(* The client.                                                              *)

NoError == Raise("none", NoStatus, NoText)

(* The locals of a call that has not started.                               *)
NoCall ==
    [pc |-> "idle", op |-> "none", server |-> "window", limit |-> 0, max_pages |-> 0,
     insights |-> <<>>, rules |-> <<>>, pages |-> 0, batchsize |-> 0, remaining |-> 0,
     next_page_token |-> None, requests |-> <<>>, fetched |-> <<>>,
     http |-> NoExchange, result |-> <<>>, err |-> NoError, q |-> None, offset |-> 0,
     returned |-> NoText]

Start ==
    /\ other = NoCall
    /\ pc = "idle"
    /\ op = "none"
    /\ server = "window"
    /\ limit = 0
    /\ max_pages = 0
    /\ insights = <<>>
    /\ rules = <<>>
    /\ pages = 0
    /\ batchsize = 0
    /\ remaining = 0
    /\ next_page_token = None
    /\ requests = <<>>
    /\ fetched = <<>>
    /\ http = NoExchange
    /\ result = <<>>
    /\ err = NoError
    /\ q = None
    /\ offset = 0
    /\ returned = NoText
    /\ invoked = NoInvocations
    /\ issued = NoRequests

(* The client the calls are made on, constructed with the default endpoint. *)
DefaultClient == SumoLogicCSE("su123", "su123", Endpoint(DefaultEndpoint)).value

DefaultConstruction ==
    Construction("su123", "su123", Endpoint(DefaultEndpoint),
                 SumoLogicCSE("su123", "su123", Endpoint(DefaultEndpoint)))

Init ==
    /\ Start
    /\ self = DefaultClient
    /\ construction = DefaultConstruction
    /\ collection = 0
    /\ script = NoScript

(* A facade call starts when no call is running, on a client that exists.   *)
Enter(o, Q, O, s) ==
    /\ self.present
    /\ pc' = "loop"
    /\ op' = o
    /\ q' = Q
    /\ offset' = O
    /\ returned' = NoText
    /\ UNCHANGED outside
    /\ server' = s
    /\ insights' = <<>>
    /\ rules' = <<>>
    /\ next_page_token' = None
    /\ requests' = <<>>
    /\ fetched' = <<>>
    /\ http' = NoExchange
    /\ result' = <<>>
    /\ err' = NoError

(* The exception e leaves the running call.                                 *)
Fail(e) ==
    /\ pc' = "failed"
    /\ err' = e
    /\ UNCHANGED <<insights, rules, pages, batchsize, remaining, next_page_token,
                   fetched, result>>

(* ---- get_insights ------------------------------------------------------ *)

(* The new page put in front of the list instead of behind it.              *)
accumulate_in_front(acc, objects) == IF Len(objects) > 0 THEN objects \o acc ELSE acc

accumulate(acc, objects) == IF Len(objects) > 0 THEN acc \o objects ELSE acc

get_insights_enter(Q, M, s) ==
    /\ pc = "idle"
    /\ Enter("get_insights", Q, 0, s)
    /\ pages' = 0
    /\ max_pages' = M
    /\ limit' = 0
    /\ batchsize' = 0
    /\ remaining' = 0

(* The page cap tested with <= : one page too many.                         *)
get_insights_while_inclusive == pages <= max_pages

get_insights_while == pages < max_pages

(* The end of the walk tested against the empty string instead of None.     *)
get_insights_break_on_empty_string(token) == token = ""

get_insights_break(token) == token = None

(* The token of the first page kept for every later request.                *)
get_insights_next_page_token_first_kept(token, data) ==
    IF token = None THEN data.nextPageToken ELSE token

(* next_page_token = i["data"]["nextPageToken"]                             *)
get_insights_next_page_token(token, data) == data.nextPageToken

get_insights_step(X) ==
    /\ pc = "loop"
    /\ op = "get_insights"
    /\ get_insights_while
    /\ requests' = Append(requests, [path |-> "/insights/all",
                                     nextPageToken |-> next_page_token,
                                     q |-> q, version |-> None,
                                     url |-> Url(None, "/insights/all")])
    /\ UNCHANGED <<op, server, limit, max_pages, q, offset, returned, outside>>
    /\ \E x \in X :
        LET i == Subscript(get_insights_all(x))
        IN  /\ http' = x
            /\ IF i.raised # "none" THEN Fail(i)
               ELSE LET data == i.value.data
                        collected == accumulate(insights, data.objects)
                    IN  /\ pages' = pages + 1
                        /\ insights' = collected
                        /\ next_page_token' =
                                get_insights_next_page_token(next_page_token, data)
                        /\ fetched' = Append(fetched, data)
                        /\ pc' = IF get_insights_break(data.nextPageToken)
                                 THEN "done" ELSE "loop"
                        /\ result' = IF get_insights_break(data.nextPageToken)
                                     THEN collected ELSE result
                        /\ UNCHANGED <<rules, batchsize, remaining, err>>

get_insights_return ==
    /\ pc = "loop"
    /\ op = "get_insights"
    /\ ~get_insights_while
    /\ pc' = "done"
    /\ result' = insights
    /\ UNCHANGED <<op, server, limit, max_pages, insights, rules, pages, batchsize,
                   remaining, next_page_token, requests, fetched, http, err,
                   q, offset, returned, outside>>

(* ---- query_insights ---------------------------------------------------- *)

(* The first page size taken from the limit without the cap.                *)
query_insights_batchsize_uncapped(l) == l

query_insights_batchsize(l) == IF l > InsightsPageCap THEN InsightsPageCap ELSE l

(* The next page size always the cap, whatever is left of the budget.       *)
query_insights_next_batchsize_full(rem) == InsightsPageCap

query_insights_next_batchsize(rem) ==
    IF rem > InsightsPageCap THEN InsightsPageCap ELSE rem

(* The loop entered again with the budget used up exactly.                  *)
query_insights_while_nonnegative(rem) == rem >= 0

(* while remaining > 0                                                      *)
query_insights_while(rem) == rem > 0

(* The offset of the first request taken from the argument of the call.    *)
query_insights_first_offset_from_argument(O) == O

(* pages = 0                                                                *)
query_insights_first_offset(O) == 0

query_insights_enter(Q, O, L, s) ==
    /\ pc = "idle"
    /\ Enter("query_insights", Q, O, s)
    /\ pages' = query_insights_first_offset(O)
    /\ limit' = L
    /\ max_pages' = 0
    /\ batchsize' = query_insights_batchsize(L)
    /\ remaining' = L

(* The budget given up when the page does not start with the record 0.     *)
query_insights_remaining_by_content(rem, objects) ==
    IF Len(objects) > 0 /\ objects[1] = 0 THEN rem - Len(objects) ELSE 0

(* The budget not charged with the records of the page.                    *)
query_insights_remaining_unchanged(rem, objects) == rem

query_insights_remaining(rem, objects) ==
    IF Len(objects) > 0 THEN rem - Len(objects) ELSE 0

(* The offset moved on by the number of records the page returned.          *)
query_insights_next_offset_by_returned(start, size, objects) == start + Len(objects)

(* pages += batchsize                                                       *)
query_insights_next_offset(start, size, objects) == start + size

(* The hasNextPage flag ignored: only the budget ends the walk.             *)
query_insights_break_ignored(hasNextPage) == FALSE

query_insights_break(hasNextPage) == ~hasNextPage

query_insights_step(X) ==
    /\ pc = "loop"
    /\ op = "query_insights"
    /\ query_insights_while(remaining)
    /\ requests' = Append(requests, [path |-> "/insights", offset |-> pages,
                                     limit |-> batchsize, q |-> q,
                                     version |-> None,
                                     url |-> Url(None, "/insights")])
    /\ UNCHANGED <<op, server, limit, max_pages, q, offset, returned, outside>>
    /\ \E x \in X :
        LET i == Subscript(get_insights_list(x))
        IN  /\ http' = x
            /\ IF i.raised # "none" THEN Fail(i)
               ELSE LET data == i.value.data
                        collected == accumulate(insights, data.objects)
                        rem == query_insights_remaining(remaining, data.objects)
                        stop == query_insights_break(data.hasNextPage)
                    IN  /\ insights' = collected
                        /\ remaining' = rem
                        /\ fetched' = Append(fetched, data)
                        /\ pages' = IF stop THEN pages
                                    ELSE query_insights_next_offset(pages, batchsize,
                                                                    data.objects)
                        /\ batchsize' = IF stop THEN batchsize
                                        ELSE query_insights_next_batchsize(rem)
                        /\ pc' = IF stop THEN "done" ELSE "loop"
                        /\ result' = IF stop THEN collected ELSE result
                        /\ UNCHANGED <<rules, next_page_token, err>>

query_insights_return ==
    /\ pc = "loop"
    /\ op = "query_insights"
    /\ ~query_insights_while(remaining)
    /\ pc' = "done"
    /\ result' = insights
    /\ UNCHANGED <<op, server, limit, max_pages, insights, rules, pages, batchsize,
                   remaining, next_page_token, requests, fetched, http, err,
                   q, offset, returned, outside>>

(* ---- query_rules ------------------------------------------------------- *)

Min(a, b) == IF a < b THEN a ELSE b

extend(acc, objects) == acc \o objects

query_rules_batchsize(l) == IF l > RulesPageCap THEN Min(l, RulesPageCap) ELSE l

(* The next page size always the cap, whatever is left of the budget.       *)
query_rules_next_batchsize_full(rem) == RulesPageCap

query_rules_next_batchsize(rem) == Min(RulesPageCap, rem)

(* pages = 0                                                                *)
query_rules_first_offset(O) == 0

query_rules_enter(Q, O, L, s) ==
    /\ pc = "idle"
    /\ Enter("query_rules", Q, O, s)
    /\ pages' = query_rules_first_offset(O)
    /\ limit' = L
    /\ max_pages' = 0
    /\ batchsize' = query_rules_batchsize(L)
    /\ remaining' = L

query_rules_remaining(rem, objects) ==
    IF Len(objects) > 0 THEN rem - Len(objects) ELSE 0

query_rules_break(hasNextPage) == ~hasNextPage

(* pages += batchsize                                                       *)
query_rules_next_offset(start, size, objects) == start + size

query_rules_step(X) ==
    /\ pc = "loop"
    /\ op = "query_rules"
    /\ remaining > 0
    /\ requests' = Append(requests, [path |-> "/rules", offset |-> pages,
                                     limit |-> batchsize, q |-> q,
                                     version |-> None,
                                     url |-> Url(None, "/rules")])
    /\ UNCHANGED <<op, server, limit, max_pages, q, offset, returned, outside>>
    /\ \E x \in X :
        LET r == Subscript(get_rules(x))
        IN  /\ http' = x
            /\ IF r.raised # "none" THEN Fail(r)
               ELSE LET data == r.value.data
                        collected == IF Len(data.objects) > 0
                                     THEN extend(rules, data.objects) ELSE rules
                        rem == query_rules_remaining(remaining, data.objects)
                        stop == query_rules_break(data.hasNextPage)
                    IN  /\ rules' = collected
                        /\ remaining' = rem
                        /\ fetched' = Append(fetched, data)
                        /\ pages' = IF stop THEN pages
                                    ELSE query_rules_next_offset(pages, batchsize,
                                                                 data.objects)
                        /\ batchsize' = IF stop THEN batchsize
                                        ELSE query_rules_next_batchsize(rem)
                        /\ pc' = IF stop THEN "done" ELSE "loop"
                        /\ result' = IF stop THEN collected ELSE result
                        /\ UNCHANGED <<insights, next_page_token, err>>

query_rules_return ==
    /\ pc = "loop"
    /\ op = "query_rules"
    /\ ~(remaining > 0)
    /\ pc' = "done"
    /\ result' = rules
    /\ UNCHANGED <<op, server, limit, max_pages, insights, rules, pages, batchsize,
                   remaining, next_page_token, requests, fetched, http, err,
                   q, offset, returned, outside>>

(* ---- a direct call of a transport method ------------------------------- *)

transport_call(X) ==
    /\ pc = "idle"
    /\ self.present
    /\ \E m \in Methods, version \in Versions, encodable \in BOOLEAN,
          paramsPresent \in BOOLEAN, fileReadable \in BOOLEAN, x \in X :
        LET sent == Sends(m, encodable, paramsPresent, fileReadable)
            out == Transport(m, encodable, paramsPresent, fileReadable, x)
        IN  /\ op' = m
            /\ requests' = IF sent
                            THEN <<[path |-> "/", method |-> m, version |-> version,
                                    url |-> Url(version, "/")]>>
                            ELSE <<>>
            /\ http' = IF sent THEN x ELSE NoExchange
            /\ pc' = IF out.raised # "none" THEN "failed" ELSE "done"
            /\ err' = IF out.raised # "none" THEN out ELSE NoError
    /\ server' = "window"
    /\ limit' = 0
    /\ max_pages' = 0
    /\ insights' = <<>>
    /\ rules' = <<>>
    /\ pages' = 0
    /\ batchsize' = 0
    /\ remaining' = 0
    /\ next_page_token' = None
    /\ fetched' = <<>>
    /\ result' = <<>>
    /\ q' = None
    /\ offset' = 0
    /\ returned' = NoText
    /\ UNCHANGED outside

(* The caller has taken the list or the exception; nothing of the call      *)
(* outlives it and the client is ready for the next call.                   *)
call_over ==
    /\ pc \in {"done", "failed"}
    /\ pc' = "idle"
    /\ op' = "none"
    /\ server' = "window"
    /\ limit' = 0
    /\ max_pages' = 0
    /\ insights' = <<>>
    /\ rules' = <<>>
    /\ pages' = 0
    /\ batchsize' = 0
    /\ remaining' = 0
    /\ next_page_token' = None
    /\ requests' = <<>>
    /\ fetched' = <<>>
    /\ http' = NoExchange
    /\ result' = <<>>
    /\ err' = NoError
    /\ q' = None
    /\ offset' = 0
    /\ returned' = NoText
    /\ UNCHANGED outside

(* ---- the constructor --------------------------------------------------- *)

(* SumoLogicCSE(accessId, accessKey, endpoint): a client object exists      *)
(* afterwards when the constructor returned, none when it raised.  The      *)
(* constructor hands nothing to the HTTP collaborator.                      *)
construct ==
    /\ pc = "idle"
    /\ \E accessId \in Credentials, accessKey \in Credentials,
          endpoint \in EndpointArguments :
        LET out == SumoLogicCSE(accessId, accessKey, endpoint)
        IN  /\ construction' = Construction(accessId, accessKey, endpoint, out)
            /\ self' = IF out.raised = "none" THEN out.value ELSE NoClient
    /\ UNCHANGED <<pc, op, server, limit, max_pages, insights, rules, pages, batchsize,
                   remaining, next_page_token, requests, fetched, http, result, err,
                   q, offset, other, returned, collection, invoked, issued, script>>

(* ---- a direct call of a single-page fetcher or a by-ID getter ---------- *)

get_insight(x) ==
    LET response == get(x)
    IN  IF response.raised # "none" THEN response
        ELSE json_loads(response.value)

get_rule(x) ==
    LET response == get(x)
    IN  IF response.raised # "none" THEN response
        ELSE json_loads(response.value)

Fetchers == {"get_insights_all", "get_insights_list", "get_rules", "get_insight",
             "get_rule"}

Fetch(f, x) ==
    CASE f = "get_insights_all" -> get_insights_all(x)
      [] f = "get_insights_list" -> get_insights_list(x)
      [] f = "get_rules" -> get_rules(x)
      [] f = "get_insight" -> get_insight(x)
      [] f = "get_rule" -> get_rule(x)

FetchPath(f) ==
    CASE f = "get_insights_all" -> "/insights/all"
      [] f = "get_insights_list" -> "/insights"
      [] f = "get_rules" -> "/rules"
      [] f = "get_insight" -> "/insights/{insight_id}"
      [] f = "get_rule" -> "/rules/{rule_id}"

(* What a call that is one action resets of the paging locals.              *)
NoPaging ==
    /\ server' = "window"
    /\ limit' = 0
    /\ max_pages' = 0
    /\ insights' = <<>>
    /\ rules' = <<>>
    /\ pages' = 0
    /\ batchsize' = 0
    /\ remaining' = 0
    /\ next_page_token' = None
    /\ fetched' = <<>>
    /\ result' = <<>>
    /\ q' = None
    /\ offset' = 0

fetch_call(X) ==
    /\ pc = "idle"
    /\ self.present
    /\ \E f \in Fetchers, x \in X :
        LET out == Fetch(f, x)
        IN  /\ op' = f
            /\ requests' = <<[path |-> FetchPath(f), method |-> "get",
                              version |-> None, url |-> Url(None, FetchPath(f))]>>
            /\ http' = x
            /\ pc' = IF out.raised # "none" THEN "failed" ELSE "done"
            /\ err' = IF out.raised # "none" THEN out ELSE NoError
            /\ returned' = IF out.raised # "none" THEN NoText ELSE out.value
    /\ NoPaging
    /\ UNCHANGED outside

(* ---- the state-mutating facade methods --------------------------------- *)

update_insight_resolution_status(encodable, x) ==
    LET response == put(encodable, x)
    IN  IF response.raised # "none" THEN response
        ELSE json_loads(response.value)

add_insight_comment(encodable, x) ==
    LET response == post(encodable, x)
    IN  IF response.raised # "none" THEN response
        ELSE json_loads(response.value)

Mutate(m, encodable, x) ==
    CASE m = "update_insight_resolution_status" ->
            update_insight_resolution_status(encodable, x)
      [] m = "add_insight_comment" -> add_insight_comment(encodable, x)

MutatePath(m) ==
    CASE m = "update_insight_resolution_status" -> "/insights/{insight_id}/status"
      [] m = "add_insight_comment" -> "/insights/{insight_id}/comments"

MutateMethod(m) ==
    CASE m = "update_insight_resolution_status" -> "put"
      [] m = "add_insight_comment" -> "post"

(* The request sent again when the first attempt failed.                    *)
mutate_requests_retry_on_failure(encodable, out) ==
    IF ~encodable THEN 0 ELSE IF out.raised # "none" THEN 2 ELSE 1

(* The number of requests one invocation hands to the HTTP collaborator:    *)
(* put / post hold one session call, in no loop, reached when json.dumps    *)
(* of the body succeeded.                                                   *)
mutate_requests(encodable, out) == IF encodable THEN 1 ELSE 0

Invocations == invoked[<<"update_insight_resolution_status", TRUE>>]
               + invoked[<<"update_insight_resolution_status", FALSE>>]
               + invoked[<<"add_insight_comment", TRUE>>]
               + invoked[<<"add_insight_comment", FALSE>>]

(* The bookkeeping of one invocation of the mutator m.                      *)
Invoked(counts, m, encodable) == [counts EXCEPT ![<<m, encodable>>] = @ + 1]

Issued(counts, m, encodable, out) ==
    [counts EXCEPT ![m] = @ + mutate_requests(encodable, out)]

Invoke(m, encodable, out) ==
    /\ invoked' = Invoked(invoked, m, encodable)
    /\ issued' = Issued(issued, m, encodable, out)

mutate_call(X) ==
    /\ pc = "idle"
    /\ self.present
    /\ Invocations < MaxCalls
    /\ \E m \in Mutators, encodable \in BOOLEAN, x \in X :
        LET out == Mutate(m, encodable, x)
            n == mutate_requests(encodable, out)
        IN  /\ op' = m
            /\ Invoke(m, encodable, out)
            /\ requests' = [k \in 1..n |-> [path |-> MutatePath(m),
                                            method |-> MutateMethod(m),
                                            version |-> None,
                                            url |-> Url(None, MutatePath(m))]]
            /\ http' = IF n > 0 THEN x ELSE NoExchange
            /\ pc' = IF out.raised # "none" THEN "failed" ELSE "done"
            /\ err' = IF out.raised # "none" THEN out ELSE NoError
            /\ returned' = IF out.raised # "none" THEN NoText ELSE out.value
    /\ NoPaging
    /\ UNCHANGED <<other, self, construction, collection, script>>

(* ---- scripts/insights/resolve_insights.py ------------------------------ *)

(* An insight as the script looks at it: its id, its creation time, whether *)
(* its confidence passes the filter (None or <= args.confidence) and        *)
(* whether its JSON dump matches args.filterregex.                          *)
InsightAttributes == [created : 1..2, confident : BOOLEAN, matches : BOOLEAN]

Insight(id, a) ==
    [id |-> id, created |-> a.created, confident |-> a.confident, matches |-> a.matches]

(* The lists cse.query_insights hands to the script; the list can be longer *)
(* than args.limit.                                                         *)
QueryResults ==
    UNION {{[k \in 1..n |-> Insight(k, f[k])] : f \in [1..n -> InsightAttributes]} :
              n \in 0..MaxScriptInsights}

(* sorted(xs, key=created): stable.                                         *)
RECURSIVE sorted(_)
sorted(xs) ==
    IF xs = <<>> THEN <<>>
    ELSE LET least == CHOOSE k \in 1..Len(xs) :
                        /\ \A j \in 1..Len(xs) : xs[k].created <= xs[j].created
                        /\ \A j \in 1..(k - 1) : xs[j].created > xs[k].created
         IN  <<xs[least]>>
             \o sorted(SubSeq(xs, 1, least - 1) \o SubSeq(xs, least + 1, Len(xs)))

confidence_filter(d) == d.confident

(* --no-dryrun: dest="dryrun", action="store_false", default=True.          *)
parse_dryrun(no_dryrun) == IF no_dryrun THEN FALSE ELSE TRUE

(* The closing calls made whatever the mode.                                *)
resolve_insights_executes_always(dryrun) == TRUE

(* The branch of the loop body that closes the insight.                     *)
resolve_insights_executes(dryrun) == ~dryrun

(* The closing calls made for every insight of the list.                    *)
resolve_insights_within_limit_always(n, l) == TRUE

(* if n <= args.limit                                                       *)
resolve_insights_within_limit(n, l) == n <= l

ScriptLimits == 0..MaxScriptInsights

(* The outcomes of a closing call: done, or failed in one of the ways a     *)
(* transport call fails.                                                    *)
ScriptExchanges ==
    {NetworkFailure,
     Response(200, Text("object", FALSE, FALSE, NoData)),
     Response(200, Text("empty", FALSE, FALSE, NoData)),
     Response(401, Text("object", TRUE, FALSE, NoData))}

ScriptUnchanged ==
    UNCHANGED <<pc, op, server, limit, max_pages, insights, rules, pages, batchsize,
                remaining, next_page_token, requests, fetched, http, result, err,
                q, offset, other, returned, self, construction, collection>>

(* From the command line to the loop: arguments parsed, cse.query_insights  *)
(* called (its exception ends the script), the result filtered and sorted.  *)
resolve_insights_query ==
    /\ script.pc = "none"
    /\ \E no_dryrun \in BOOLEAN, l \in ScriptLimits, failed \in BOOLEAN,
          found \in QueryResults :
        LET args == [script EXCEPT !.no_dryrun = no_dryrun,
                                    !.dryrun = parse_dryrun(no_dryrun),
                                    !.limit = l]
        IN  script' =
                IF failed THEN [args EXCEPT !.pc = "crashed"]
                ELSE IF Len(found) > 0
                THEN [args EXCEPT !.pc = "loop",
                                  !.sorted_insights =
                                      sorted(SelectSeq(found, confidence_filter)),
                                  !.n = 0]
                ELSE [args EXCEPT !.pc = "exit"]
    /\ UNCHANGED <<invoked, issued>>
    /\ ScriptUnchanged

(* One iteration of "for i in sorted_insights".                             *)
resolve_insights_iteration(X) ==
    /\ script.pc = "loop"
    /\ script.n < Len(script.sorted_insights)
    /\ LET n == script.n + 1
           i == script.sorted_insights[n]
       IN  IF resolve_insights_within_limit(n, script.limit)
           THEN IF i.matches /\ resolve_insights_executes(script.dryrun)
                THEN \E x1 \in X, x2 \in X :
                        LET c == add_insight_comment(TRUE, x1)
                            r == update_insight_resolution_status(TRUE, x2)
                            commented == Invoked(invoked, "add_insight_comment", TRUE)
                            sent == Issued(issued, "add_insight_comment", TRUE, c)
                        IN  IF c.raised # "none"
                            THEN /\ invoked' = commented
                                 /\ issued' = sent
                                 /\ script' = [script EXCEPT !.n = n, !.pc = "crashed"]
                            ELSE /\ invoked' = Invoked(commented,
                                          "update_insight_resolution_status", TRUE)
                                 /\ issued' = Issued(sent,
                                          "update_insight_resolution_status", TRUE, r)
                                 /\ script' = [script EXCEPT
                                        !.n = n,
                                        !.pc = IF r.raised # "none" THEN "crashed"
                                               ELSE "loop"]
                ELSE /\ script' = [script EXCEPT !.n = n]
                     /\ UNCHANGED <<invoked, issued>>
           ELSE /\ script' = [script EXCEPT !.n = n, !.pc = "exit"]
                /\ UNCHANGED <<invoked, issued>>
    /\ ScriptUnchanged

(* The list is exhausted.                                                   *)
resolve_insights_exit ==
    /\ script.pc = "loop"
    /\ script.n = Len(script.sorted_insights)
    /\ script' = [script EXCEPT !.pc = "exit"]
    /\ UNCHANGED <<invoked, issued>>
    /\ ScriptUnchanged

-----------------------------------------------------------------------------

Limits == -1..MaxLimit

(* The query strings a caller passes: none (the default) or some query.     *)
Queries == {None, "severity:high"}

Next ==
    \/ pc = "idle" /\ \E Q \in Queries, M \in 0..MaxPages, s \in Servers :
                        get_insights_enter(Q, M, s)
    \/ get_insights_step(TokenExchanges)
    \/ get_insights_return
    \/ pc = "idle" /\ \E L \in Limits, s \in Servers :
                        query_insights_enter(None, 0, L, s)
    \/ query_insights_step(OffsetExchanges)
    \/ query_insights_return
    \/ pc = "idle" /\ \E L \in Limits, s \in Servers :
                        query_rules_enter(None, 0, L, s)
    \/ query_rules_step(OffsetExchanges)
    \/ query_rules_return
    \/ transport_call(TransportExchanges)
    \/ fetch_call(TransportExchanges)
    \/ call_over

Spec == Init /\ [][Next]_vars

(* The infinite page source: every page holds exactly the number of records *)
(* asked for, from the offset asked for, and announces a next page.         *)
InfiniteSource == {Ok(OffsetPage(PageObjects(pages, batchsize), TRUE))}

NextInfinite ==
    \/ pc = "idle" /\ \E L \in 1..MaxExactLimit : query_insights_enter(None, 0, L, "window")
    \/ query_insights_step(InfiniteSource)
    \/ query_insights_return
    \/ call_over

SpecInfinite == Init /\ [][NextInfinite]_vars

(* The well-behaved page source of a collection of N records: a request     *)
(* with offset o and page size s is answered with the records               *)
(* o .. min(o+s, N)-1 and hasNextPage = (o+s < N).                          *)
CollectionSource ==
    LET o == pages
        s == batchsize
        n == Min(o + s, collection) - o
    IN  {Ok(OffsetPage(PageObjects(o, IF n > 0 THEN n ELSE 0), o + s < collection))}

InitCollection ==
    /\ Start
    /\ self = DefaultClient
    /\ construction = DefaultConstruction
    /\ collection \in 0..MaxCollection
    /\ script = NoScript

NextCollection ==
    \/ pc = "idle" /\ \E L \in 1..MaxCollectionLimit :
                        query_insights_enter(None, 0, L, "window")
    \/ query_insights_step(CollectionSource)
    \/ query_insights_return
    \/ call_over

SpecCollection == InitCollection /\ [][NextCollection]_vars

(* Constructing clients.                                                    *)
InitConstruct ==
    /\ Start
    /\ self = NoClient
    /\ construction = NoConstruction
    /\ collection = 0
    /\ script = NoScript

NextConstruct == construct

SpecConstruct == InitConstruct /\ [][NextConstruct]_vars

(* Clients constructed with any arguments, and transport and facade calls   *)
(* made on them.                                                            *)
NextClient ==
    \/ construct
    \/ transport_call(TransportExchanges)
    \/ fetch_call(TransportExchanges)
    \/ pc = "idle" /\ \E Q \in Queries, s \in Servers : get_insights_enter(Q, 1, s)
    \/ get_insights_step(TokenExchanges)
    \/ get_insights_return
    \/ call_over

SpecClient == InitConstruct /\ [][NextClient]_vars

(* The offsets a caller passes: the default, and offsets below and above    *)
(* the page cap.                                                            *)
Offsets == {0, 1, MaxOffset}

(* Callers of query_insights and query_rules that pass an offset.           *)
NextArguments ==
    \/ pc = "idle" /\ \E O \in Offsets, L \in -1..MaxSmallLimit :
                        query_insights_enter(None, O, L, "window")
    \/ query_insights_step(OffsetExchanges)
    \/ query_insights_return
    \/ pc = "idle" /\ \E O \in Offsets, L \in -1..MaxSmallLimit :
                        query_rules_enter(None, O, L, "window")
    \/ query_rules_step(OffsetExchanges)
    \/ query_rules_return
    \/ call_over

SpecArguments == Init /\ [][NextArguments]_vars

(* Callers of query_insights and query_rules whose running call takes its   *)
(* next step: the call is synchronous, each fetch returns an answer or      *)
(* raises, and the statement after it is executed.                          *)
NextTermination ==
    \/ pc = "idle" /\ \E L \in -1..MaxSmallLimit, s \in Servers :
                        query_insights_enter(None, 0, L, s)
    \/ query_insights_step(OffsetExchanges)
    \/ query_insights_return
    \/ pc = "idle" /\ \E L \in -1..MaxSmallLimit, s \in Servers :
                        query_rules_enter(None, 0, L, s)
    \/ query_rules_step(OffsetExchanges)
    \/ query_rules_return
    \/ call_over

SpecTermination ==
    /\ Init /\ [][NextTermination]_vars
    /\ WF_vars(query_insights_step(OffsetExchanges) \/ query_insights_return)
    /\ WF_vars(query_rules_step(OffsetExchanges) \/ query_rules_return)

(* ---- two calls on one client -------------------------------------------- *)

(* The page of the collection a token stands for: None for the first page   *)
(* of MaxPageRecords records, "A" and "B" for the second and the third.     *)
TokenCollectionPage(token) ==
    LET k == CASE token = None -> 0 [] token = "A" -> 1 [] token = "B" -> 2
        o == k * MaxPageRecords
        n == Min(o + MaxPageRecords, collection) - o
        t == IF o + MaxPageRecords >= collection THEN None
             ELSE CASE k = 0 -> "A" [] k = 1 -> "B" [] k = 2 -> None
    IN  TokenPage(PageObjects(o, IF n > 0 THEN n ELSE 0), t)

(* The offset of the call kept on the client rather than in the call.       *)
locals_offset_not_local ==
    [pc |-> pc, op |-> op, server |-> server, limit |-> limit, max_pages |-> max_pages,
     insights |-> insights, rules |-> rules, pages |-> other.pages,
     batchsize |-> batchsize, remaining |-> remaining,
     next_page_token |-> next_page_token, requests |-> requests, fetched |-> fetched,
     http |-> http, result |-> result, err |-> err, q |-> q, offset |-> offset,
     returned |-> returned]

(* The arguments and local variables of the running call.                   *)
locals ==
    [pc |-> pc, op |-> op, server |-> server, limit |-> limit, max_pages |-> max_pages,
     insights |-> insights, rules |-> rules, pages |-> pages,
     batchsize |-> batchsize, remaining |-> remaining,
     next_page_token |-> next_page_token, requests |-> requests, fetched |-> fetched,
     http |-> http, result |-> result, err |-> err, q |-> q, offset |-> offset,
     returned |-> returned]

(* The running call is suspended between two of its steps and the other     *)
(* call on the client goes on: each call has its locals, the client, the    *)
(* session and the server are the same.                                     *)
switch ==
    /\ other' = locals
    /\ pc' = other.pc
    /\ op' = other.op
    /\ server' = other.server
    /\ limit' = other.limit
    /\ max_pages' = other.max_pages
    /\ insights' = other.insights
    /\ rules' = other.rules
    /\ pages' = other.pages
    /\ batchsize' = other.batchsize
    /\ remaining' = other.remaining
    /\ next_page_token' = other.next_page_token
    /\ requests' = other.requests
    /\ fetched' = other.fetched
    /\ http' = other.http
    /\ result' = other.result
    /\ err' = other.err
    /\ q' = other.q
    /\ offset' = other.offset
    /\ returned' = other.returned
    /\ UNCHANGED <<self, construction, collection, invoked, issued, script>>

InitInterleaved ==
    /\ Start
    /\ self = DefaultClient
    /\ construction = DefaultConstruction
    /\ collection \in {0, 1, MaxCollection}
    /\ script = NoScript

(* Two callers of get_insights and query_insights on one client, against a  *)
(* server whose answer is a function of the request.                        *)
NextInterleaved ==
    \/ pc = "idle" /\ \E M \in 1..MaxPages : get_insights_enter(None, M, "window")
    \/ get_insights_step({Ok(TokenCollectionPage(next_page_token))})
    \/ get_insights_return
    \/ pc = "idle" /\ \E L \in {1, InsightsPageCap + 1, MaxCollectionLimit} :
                        query_insights_enter(None, 0, L, "window")
    \/ query_insights_step(CollectionSource)
    \/ query_insights_return
    \/ call_over
    \/ switch

SpecInterleaved == InitInterleaved /\ [][NextInterleaved]_vars

(* A caller of the state-mutating methods.                                  *)
NextMutations ==
    \/ mutate_call(TransportExchanges)
    \/ call_over

SpecMutations == Init /\ [][NextMutations]_vars

(* One run of the resolve_insights script.                                  *)
NextScript ==
    \/ resolve_insights_query
    \/ resolve_insights_iteration(ScriptExchanges)
    \/ resolve_insights_exit

SpecScript == Init /\ [][NextScript]_vars

-----------------------------------------------------------------------------
(* Properties.                                                              *)

Aggregators == {"get_insights", "query_insights", "query_rules"}

OffsetAggregators == {"query_insights", "query_rules"}

Last(seq) == seq[Len(seq)]

(* C1: every request issued by query_insights and by query_rules carries a  *)
(* page size (limit parameter) of at most 20, whatever limit the caller     *)
(* asked for and whatever the pages hold.                                   *)
C1_PageSizeAtMost20 ==
    op \in OffsetAggregators =>
        \A k \in 1..Len(requests) : requests[k].limit <= 20

C1_Witness ==
    /\ op \in OffsetAggregators
    /\ limit > 40
    /\ Len(requests) = 3
    /\ requests[1].limit = 20
    /\ requests[3].limit = 20

(* C2: get_insights(max_pages = M) issues at most M page fetches whatever   *)
(* the server answers, each iteration issues one, and at M fetches the only *)
(* step left is the return; when no fetched page carried a null             *)
(* nextPageToken it returns after exactly M fetches.                        *)
C2_AtMostMaxPagesFetches ==
    op = "get_insights" =>
        /\ Len(requests) <= max_pages
        /\ pc = "loop" => pages = Len(requests)
        /\ (pc = "loop" /\ Len(requests) = max_pages) => ENABLED get_insights_return
        /\ (pc = "done" /\ \A k \in 1..Len(fetched) : fetched[k].nextPageToken # None)
              => Len(requests) = max_pages

C2_Witness ==
    /\ op = "get_insights"
    /\ pc = "done"
    /\ max_pages = 4
    /\ Len(requests) = 4
    /\ \A k \in 1..Len(fetched) : fetched[k].nextPageToken # None

(* C3: get_insights stops at the first page whose nextPageToken is null and *)
(* only there: no request follows a page with a null token; when it returns *)
(* with the last page's token null, it made as many fetches as it got pages *)
(* and returns the records of all of them; when it returns after fewer than *)
(* max_pages fetches the last token is null; a page without records and     *)
(* with a non-null token leaves the walk running.                           *)
C3_StopsAtFirstNullToken ==
    op = "get_insights" =>
        /\ \A k \in 1..Len(fetched) :
               fetched[k].nextPageToken = None
                   => k = Len(fetched) /\ Len(requests) = k /\ pc = "done"
        /\ (pc = "done" /\ fetched # <<>> /\ Last(fetched).nextPageToken = None)
              => /\ Len(requests) = Len(fetched)
                 /\ result = Flatten(fetched)
        /\ (pc = "done" /\ Len(requests) < max_pages)
              => fetched # <<>> /\ Last(fetched).nextPageToken = None
        /\ (/\ fetched # <<>>
            /\ Len(requests) = Len(fetched)
            /\ Last(fetched).objects = <<>>
            /\ Last(fetched).nextPageToken # None
            /\ Len(fetched) < max_pages)
              => pc = "loop"

C3_Witness ==
    /\ op = "get_insights"
    /\ pc = "done"
    /\ max_pages = 4
    /\ Len(requests) = 3
    /\ Len(fetched) = 3
    /\ fetched[1].nextPageToken = "A"
    /\ fetched[2].nextPageToken = "B"
    /\ fetched[3].nextPageToken = None
    /\ \A k \in 1..3 : Len(fetched[k].objects) = 2
    /\ Len(result) = 6

(* C4: against the infinite page source query_insights(limit = L), L >= 1,  *)
(* issues its i-th request (from 0) at offset 20*i with page size           *)
(* min(20, L - 20*i), and returns after exactly ceil(L/20) requests with    *)
(* exactly L records.                                                       *)
C4_ExactBatches ==
    op = "query_insights" =>
        /\ \A k \in 1..Len(requests) :
               /\ requests[k].offset = 20 * (k - 1)
               /\ requests[k].limit = Min(20, limit - 20 * (k - 1))
        /\ pc = "done" =>
               /\ Len(requests) = (limit + 19) \div 20
               /\ Len(result) = limit

C4_Witness ==
    /\ op = "query_insights"
    /\ pc = "done"
    /\ limit = 100
    /\ Len(result) = 100
    /\ [k \in 1..Len(requests) |-> <<requests[k].offset, requests[k].limit>>]
           = <<(<<0, 20>>), (<<20, 20>>), (<<40, 20>>), (<<60, 20>>), (<<80, 20>>)>>

(* C5: when a page fetch fails inside get_insights, query_insights or       *)
(* query_rules, the failing request is the last one issued, what the        *)
(* transport raised is what the caller gets, a response with status 500     *)
(* reaches the caller as APIError with status_code 500, and no record is    *)
(* returned.                                                                *)
C5_FailedPageAbortsAll ==
    (op \in Aggregators /\ pc = "failed") =>
        /\ Len(requests) = Len(fetched) + 1
        /\ get(http).raised # "none" => err = get(http)
        /\ (http.net = "response" /\ http.status_code = 500)
              => err.raised = "APIError" /\ err.status_code = 500
        /\ result = <<>>

(* C6: for limit >= 1 the list returned by query_insights and query_rules   *)
(* holds at most limit records.                                             *)
C6_AtMostLimitRecords ==
    (op \in OffsetAggregators /\ pc = "done" /\ limit >= 1) => Len(result) <= limit

(* C7: the list returned by get_insights, query_insights and query_rules is *)
(* the concatenation of the records of the pages fetched, in fetch order    *)
(* and in page order, repeated records included; the same holds of the      *)
(* list accumulated while the walk runs.                                    *)
C7_ResultIsConcatenation ==
    op \in Aggregators =>
        /\ pc = "done" => result = Flatten(fetched)
        /\ pc = "loop" =>
               (IF op = "query_rules" THEN rules ELSE insights) = Flatten(fetched)

C7_Witness ==
    /\ op \in {"get_insights", "query_insights"}
    /\ pc = "done"
    /\ server = "repeat"
    /\ Len(fetched) = 2
    /\ Len(fetched[1].objects) = 2
    /\ Len(fetched[2].objects) = 1
    /\ result = <<0, 1, 0>>

(* C8: in query_insights and query_rules a page that reports hasNextPage =  *)
(* false is the last page requested, also when fewer records than limit    *)
(* have been accumulated, and the call returns with that page's records at  *)
(* the end of the list.                                                     *)
C8_NoRequestAfterLastPage ==
    op \in OffsetAggregators =>
        \A k \in 1..Len(fetched) :
            ~fetched[k].hasNextPage =>
                /\ k = Len(fetched)
                /\ Len(requests) = k
                /\ pc = "done"
                /\ Len(result) >= Len(fetched[k].objects)
                /\ SubSeq(result, Len(result) - Len(fetched[k].objects) + 1, Len(result))
                       = fetched[k].objects

C8_Witness ==
    /\ op \in OffsetAggregators
    /\ pc = "done"
    /\ Len(fetched) = 2
    /\ ~fetched[2].hasNextPage
    /\ Len(fetched[2].objects) = 1
    /\ remaining > 0
    /\ Len(result) < limit

(* C9: a response with status 401, whatever its body, to a call of get,     *)
(* post, put, delete or post_file or to a page fetch of an aggregation,     *)
(* makes the call fail with AuthenticationError.                            *)
C9_Status401IsAuthenticationError ==
    (http.net = "response" /\ http.status_code = 401) =>
        /\ pc = "failed"
        /\ err.raised = "AuthenticationError"

C9_Witness ==
    /\ op = "put"
    /\ http.net = "response"
    /\ http.status_code = 401
    /\ http.text.json = "scalar"
    /\ err.raised = "AuthenticationError"

(* C10: a transport call that reached the HTTP collaborator fails with      *)
(* APIError on a network failure, fails with APIError carrying the status   *)
(* code and the raw body on a status of [400,600) other than 401, and       *)
(* succeeds on any status outside [400,600).                                *)
C10_OtherFailuresAreAPIError ==
    (op \in Methods /\ http.net # "none") =>
        /\ http.net = "failure" => pc = "failed" /\ err.raised = "APIError"
        /\ (/\ http.net = "response"
            /\ 400 <= http.status_code /\ http.status_code < 600
            /\ http.status_code # 401)
              => /\ pc = "failed"
                 /\ err = Raise("APIError", http.status_code, http.text)
        /\ (http.net = "response" /\ ~(400 <= http.status_code /\ http.status_code < 600))
              => pc = "done"

(* C11: for every facade method that returns the parsed body, a response    *)
(* with a non-error status yields the parsed JSON body, an empty body       *)
(* yields an empty mapping and a body that is not valid JSON makes the call *)
(* fail with DataError: the offset-based fetchers and the by-ID getters     *)
(* included.                                                                *)
C11_ParsedBodyOrDataError ==
    (/\ op \in Fetchers
     /\ pc \in {"done", "failed"}
     /\ http.net = "response"
     /\ ~(400 <= http.status_code /\ http.status_code < 600))
    => CASE http.text.json = "empty" -> pc = "done" /\ returned = EmptyMapping
         [] http.text.json = "invalid" -> pc = "failed" /\ err.raised = "DataError"
         [] OTHER -> pc = "done" /\ returned = http.text

(* C12: the endpoint of a constructed client is                             *)
(* https://api.<code>.sumologic.com/api/sec when the endpoint argument is   *)
(* one of the region codes, https://api.sumologic.com/api/sec when it is    *)
(* "prod", "us1" or absent, and the argument itself, unchanged, for any     *)
(* other string: a string that only begins with or contains a region code   *)
(* is not rewritten.                                                        *)
C12_EndpointResolution ==
    (construction.called /\ self.present)
    => LET endpoint == construction.endpoint
       IN  self.endpoint =
               IF ~endpoint.present THEN DefaultEndpoint
               ELSE IF endpoint.chars \in RegionCodes
                    THEN RegionPrefix \o endpoint.chars \o RegionSuffix
               ELSE IF endpoint.chars \in DefaultCodes THEN DefaultEndpoint
               ELSE endpoint.chars

(* An endpoint that starts with an HTTP(S) scheme and does not end in "/".  *)
WellFormed(chars) ==
    /\ ~endswith(chars, Slash)
    /\ startswith(chars, Https) \/ startswith(chars, Http)

(* C13 as stated: constructing a client fails with ConfigurationError for   *)
(* every endpoint string that ends in "/" or does not start with "http://"  *)
(* or "https://" (the empty string included), and the endpoint of every     *)
(* client that exists starts with an HTTP(S) scheme and does not end in "/".*)
C13_IllFormedStringIsConfigurationError ==
    /\ (/\ construction.called
        /\ construction.endpoint.present
        /\ ~WellFormed(construction.endpoint.chars))
       => construction.raised = "ConfigurationError"
    /\ self.present => WellFormed(self.endpoint)

(* C13, amended: constructing a client with both credentials present fails  *)
(* with ConfigurationError for every endpoint string that is not rewritten  *)
(* by endpoint resolution (it does not match a region code, "prod" or       *)
(* "us1") and that ends in "/" or does not start with "http://" or          *)
(* "https://" (the empty string included); the endpoint of every client     *)
(* that exists starts with an HTTP(S) scheme and does not end in "/".       *)
C13_IllFormedEndpointIsConfigurationError ==
    /\ (/\ construction.called
        /\ ~Missing(construction.accessId)
        /\ ~Missing(construction.accessKey)
        /\ construction.endpoint.present
        /\ ~re_match(RegionCodes \cup DefaultCodes, construction.endpoint.chars)
        /\ ~WellFormed(construction.endpoint.chars))
       => (construction.raised = "ConfigurationError" /\ ~self.present)
    /\ self.present => WellFormed(self.endpoint)

(* The constructor, given both credentials, has refused the empty string.   *)
C13_Witness ==
    /\ construction.called
    /\ ~Missing(construction.accessId)
    /\ ~Missing(construction.accessKey)
    /\ construction.endpoint.present
    /\ construction.endpoint.chars = <<>>
    /\ construction.raised = "ConfigurationError"
    /\ ~self.present

(* C16: constructing a client with an absent or empty accessId or accessKey *)
(* fails with AuthenticationError, whatever the endpoint argument is (the   *)
(* credentials are checked before the endpoint is validated), and           *)
(* construction hands no request to the HTTP collaborator.                  *)
C16_MissingCredentialsIsAuthenticationError ==
    /\ (/\ construction.called
        /\ Missing(construction.accessId) \/ Missing(construction.accessKey))
       => (construction.raised = "AuthenticationError" /\ ~self.present)
    /\ construction.called => (requests = <<>> /\ http = NoExchange)

(* The constructor, given an empty accessKey and an endpoint without a      *)
(* scheme, has raised AuthenticationError.                                  *)
C16_Witness ==
    /\ construction.called
    /\ construction.accessId = "su123"
    /\ construction.accessKey = ""
    /\ construction.endpoint.present
    /\ construction.endpoint.chars = <<"a", "u", "s">>
    /\ construction.raised = "AuthenticationError"
    /\ requests = <<>>

(* C14: against the well-behaved source, query_insights(limit=50) returns   *)
(* the empty list without error after exactly one fetch when the collection *)
(* holds no record, and a list of length 1 after exactly one fetch when it  *)
(* holds exactly one record.                                                *)
C14_ZeroOrOneRecordOneFetch ==
    (op = "query_insights" /\ limit = 50 /\ collection \in {0, 1})
    => /\ pc # "failed"
       /\ pc = "loop" => requests = <<>>
       /\ pc = "done" => /\ Len(requests) = 1
                         /\ Len(result) = collection
                         /\ result = PageObjects(0, collection)
                         /\ err = NoError

(* query_insights(limit=50) has returned the one record of the collection.  *)
C14_Witness ==
    /\ op = "query_insights"
    /\ limit = 50
    /\ collection = 1
    /\ pc = "done"
    /\ result = <<0>>
    /\ Len(requests) = 1

(* C18: in query_insights and query_rules the offset of each request after  *)
(* the first is the previous request's offset plus the previous request's   *)
(* page size, whatever number of records the previous page returned; when a *)
(* page was short and a later request followed, the records between the     *)
(* returned count and the requested size are in no page fetched and not in  *)
(* the list collected.                                                      *)
C18_OffsetAdvancesByBatchsize ==
    op \in OffsetAggregators
    => /\ \A k \in 2..Len(requests) :
            requests[k].offset = requests[k - 1].offset + requests[k - 1].limit
       /\ server = "window"
          => \A k \in 1..Len(fetched) :
                (k < Len(requests) /\ Len(fetched[k].objects) < requests[k].limit)
                => LET first == requests[k].offset + Len(fetched[k].objects)
                       last == requests[k].offset + requests[k].limit - 1
                       Skipped(id) == first <= id /\ id <= last
                   IN  /\ \A j \in 1..Len(fetched) : \A n \in 1..Len(fetched[j].objects) :
                            ~Skipped(fetched[j].objects[n])
                       /\ \A n \in 1..Len(insights) : ~Skipped(insights[n])
                       /\ \A n \in 1..Len(rules) : ~Skipped(rules[n])

(* query_insights asked for 20 records at offset 0, was given one record    *)
(* and hasNextPage = true, and asked for the next page at offset 20.        *)
C18_Witness ==
    /\ op = "query_insights"
    /\ server = "window"
    /\ Len(requests) = 2
    /\ Len(fetched) = 2
    /\ requests[1].offset = 0
    /\ requests[1].limit = 20
    /\ fetched[1].objects = <<0>>
    /\ fetched[1].hasNextPage
    /\ requests[2].offset = 20
    /\ pc = "done"

(* C19: against the well-behaved source holding N records,                  *)
(* query_insights(limit=L) with L >= 1 returns the first min(L, N) records  *)
(* of the collection, in order, each exactly once, and does not fail.       *)
C19_FirstMinRecords ==
    (op = "query_insights" /\ limit >= 1)
    => /\ pc # "failed"
       /\ pc = "done" => result = PageObjects(0, Min(limit, collection))

(* Three pages were needed: 45 records asked for from a collection of 44.   *)
C19_Witness ==
    /\ op = "query_insights"
    /\ limit = 45
    /\ collection = 44
    /\ pc = "done"
    /\ Len(requests) = 3
    /\ Len(result) = 44

(* C20: in get_insights the first request carries no continuation token,    *)
(* every later request carries the nextPageToken of the page immediately    *)
(* before it, a request is issued only when the page of every earlier       *)
(* request has been received, and every request carries the query q the     *)
(* call was made with.                                                      *)
C20_TokenChaining ==
    op = "get_insights"
    => /\ Len(requests) >= 1 => requests[1].nextPageToken = None
       /\ \A k \in 2..Len(requests) :
            /\ k - 1 <= Len(fetched)
            /\ requests[k].nextPageToken = fetched[k - 1].nextPageToken
       /\ Len(requests) <= Len(fetched) + 1
       /\ \A k \in 1..Len(requests) : requests[k].q = q

(* Three requests of a get_insights call with a query: the second carried   *)
(* the token "A" of the first page, the third the token "B" of the second.  *)
C20_Witness ==
    /\ op = "get_insights"
    /\ q = "severity:high"
    /\ Len(requests) = 3
    /\ Len(fetched) >= 2
    /\ fetched[1].nextPageToken = "A"
    /\ fetched[2].nextPageToken = "B"
    /\ requests[2].nextPageToken = "A"
    /\ requests[3].nextPageToken = "B"
    /\ requests[3].q = "severity:high"

(* C15 as stated: each invocation of update_insight_resolution_status or    *)
(* add_insight_comment issues exactly one HTTP request (one PUT,            *)
(* respectively one POST), whether it succeeds or fails, so k invocations   *)
(* have issued k requests.                                                  *)
C15_OneRequestPerInvocation ==
    /\ (op \in Mutators /\ pc \in {"done", "failed"})
       => /\ Len(requests) = 1
          /\ requests[1].method = MutateMethod(op)
    /\ \A m \in Mutators : issued[m] = invoked[<<m, TRUE>>] + invoked[<<m, FALSE>>]

(* C15, amended: each invocation of update_insight_resolution_status or     *)
(* add_insight_comment whose arguments can be encoded as JSON issues        *)
(* exactly one HTTP request (one PUT, respectively one POST) and is never   *)
(* retried, whether it succeeds or fails; an invocation whose arguments     *)
(* cannot be encoded fails with DataError and issues no request.  So k      *)
(* invocations with the same encodable arguments have issued k requests.    *)
C15_OneRequestPerEncodableInvocation ==
    /\ (op \in Mutators /\ pc \in {"done", "failed"})
       => /\ Len(requests) <= 1
          /\ \A k \in 1..Len(requests) :
                /\ requests[k].method = MutateMethod(op)
                /\ requests[k].path = MutatePath(op)
          /\ Len(requests) = 0 => (pc = "failed" /\ err.raised = "DataError")
    /\ \A m \in Mutators : issued[m] = invoked[<<m, TRUE>>]
    /\ issued["update_insight_resolution_status"] + issued["add_insight_comment"]
           <= Invocations

(* add_insight_comment was invoked twice with encodable arguments, the      *)
(* second invocation failed, and two POST requests were issued in all.      *)
C15_Witness ==
    /\ op = "add_insight_comment"
    /\ pc = "failed"
    /\ err.raised = "APIError"
    /\ Len(requests) = 1
    /\ requests[1].method = "post"
    /\ invoked[<<"add_insight_comment", TRUE>>] = 2
    /\ invoked[<<"add_insight_comment", FALSE>>] = 0
    /\ issued["add_insight_comment"] = 2

(* C17: the resolve_insights script run without --no-dryrun is in dry-run   *)
(* mode and, whatever insights its query matched, invokes neither           *)
(* add_insight_comment nor update_insight_resolution_status.                *)
C17_DryRunInvokesNoMutator ==
    (script.pc # "none" /\ ~script.no_dryrun)
    => /\ script.dryrun
       /\ invoked = NoInvocations
       /\ issued = NoRequests

(* A dry run has gone through two insights that pass every filter, within   *)
(* the limit, and has ended.                                                *)
C17_Witness ==
    /\ ~script.no_dryrun
    /\ script.pc = "exit"
    /\ script.limit >= 2
    /\ script.n = 2
    /\ Len(script.sorted_insights) = 2
    /\ script.sorted_insights[1].matches
    /\ script.sorted_insights[2].matches
    /\ invoked = NoInvocations

(* C30: every failure of get_insights, query_insights and query_rules is    *)
(* one of the library's categorized errors (AuthenticationError, APIError,  *)
(* DataError), also when a successful response has a body that is empty,    *)
(* is not valid JSON or lacks the fields the aggregator reads.              *)
C30_FailuresAreCategorized ==
    (op \in Aggregators /\ pc = "failed")
    => err.raised \in {"AuthenticationError", "APIError", "DataError"}

(* C29: every request of query_insights and query_rules has a page size of  *)
(* at least 1 and at most the budget remaining when it is issued (the limit *)
(* less the records of the pages before it); with limit <= 0 no request is  *)
(* sent and the result is the empty list.                                   *)
C29_PageSizeWithinBudget ==
    op \in OffsetAggregators
    => /\ \A k \in 1..Len(requests) :
            /\ requests[k].limit >= 1
            /\ requests[k].limit
                   <= limit - Len(Flatten(SubSeq(fetched, 1, k - 1)))
       /\ limit <= 0 => /\ requests = <<>>
                        /\ pc # "failed"
                        /\ pc = "done" => result = <<>>

(* query_insights(limit=21): the second request asked for the one record    *)
(* left of the budget; and the call has returned.                           *)
C29_Witness ==
    /\ op = "query_insights"
    /\ limit = 21
    /\ pc = "done"
    /\ Len(requests) = 2
    /\ requests[1].limit = 20
    /\ Len(fetched[1].objects) = 20
    /\ requests[2].limit = 1

(* C26: the resolve_insights script run with --no-dryrun invokes the        *)
(* mutating methods for at most --limit insights, whatever the query        *)
(* returned and whatever the filters let through.                           *)
C26_AtMostLimitInsightsClosed ==
    (script.pc # "none" /\ script.no_dryrun)
    => LET most == IF script.limit > 0 THEN script.limit ELSE 0
       IN  /\ invoked[<<"add_insight_comment", TRUE>>] <= most
           /\ invoked[<<"update_insight_resolution_status", TRUE>>] <= most
           /\ invoked[<<"add_insight_comment", FALSE>>] = 0
           /\ invoked[<<"update_insight_resolution_status", FALSE>>] = 0

(* An execution run with --limit 2 over three insights that pass every      *)
(* filter has closed two of them and stopped at the third.                  *)
C26_Witness ==
    /\ script.no_dryrun
    /\ script.limit = 2
    /\ script.pc = "exit"
    /\ Len(script.sorted_insights) = 3
    /\ \A k \in 1..3 : script.sorted_insights[k].matches
    /\ script.n = 3
    /\ invoked[<<"add_insight_comment", TRUE>>] = 2
    /\ invoked[<<"update_insight_resolution_status", TRUE>>] = 2

(* C24: the endpoint, the credentials and the default API version of a      *)
(* client are those its construction gave it, and no transport or facade    *)
(* operation, successful or failed, changes them; every request of a client *)
(* is sent to endpoint + "/" + version + path.                              *)
C24_ClientFixedAfterConstruction ==
    /\ [](self.present
          => /\ self.endpoint = validate_endpoint(construction.endpoint).value
             /\ self.auth = <<construction.accessId, construction.accessKey>>
             /\ self.DEFAULT_VERSION = "v1"
             /\ \A k \in 1..Len(requests) :
                    requests[k].url =
                        self.endpoint \o <<"/">>
                        \o Chars(IF requests[k].version = None THEN "v1"
                                 ELSE requests[k].version)
                        \o Chars(requests[k].path))
    /\ [][construction' = construction => self' = self]_vars

(* A client constructed for the region "au" has made a PUT with version     *)
(* "v2" that failed.                                                        *)
C24_Witness ==
    /\ self.present
    /\ construction.endpoint.present
    /\ construction.endpoint.chars = <<"a", "u">>
    /\ op = "put"
    /\ pc = "failed"
    /\ Len(requests) = 1
    /\ requests[1].version = "v2"
    /\ requests[1].url = RegionPrefix \o <<"a", "u">> \o RegionSuffix
                         \o <<"/", "v", "2", "/">>

-----------------------------------------------------------------------------
(* The aggregators as functions of the pages they are given: the locals     *)
(* after the loop has consumed the pages ps, in order, and the requests it  *)
(* has sent for them.  `surplus` tells that ps holds a page the loop would  *)
(* not have asked for.                                                      *)

Front(seq) == SubSeq(seq, 1, Len(seq) - 1)

(* One iteration of the loop of query_insights on the page `data`.          *)
query_insights_iteration(s, data) ==
    LET rem == query_insights_remaining(s.remaining, data.objects)
        stop == query_insights_break(data.hasNextPage)
    IN  [insights |-> accumulate(s.insights, data.objects),
         remaining |-> rem,
         sent |-> Append(s.sent, <<s.pages, s.batchsize>>),
         pages |-> IF stop THEN s.pages
                   ELSE query_insights_next_offset(s.pages, s.batchsize, data.objects),
         batchsize |-> IF stop THEN s.batchsize ELSE query_insights_next_batchsize(rem),
         broke |-> stop,
         surplus |-> FALSE]

(* The loop goes on to another request.                                     *)
query_insights_running(s) == ~s.broke /\ query_insights_while(s.remaining)

RECURSIVE query_insights_alone(_, _)
query_insights_alone(l, ps) ==
    IF ps = <<>> THEN
        [insights |-> <<>>, pages |-> 0, batchsize |-> query_insights_batchsize(l),
         remaining |-> l, sent |-> <<>>, broke |-> FALSE, surplus |-> FALSE]
    ELSE LET s == query_insights_alone(l, Front(ps))
         IN  IF s.surplus \/ ~query_insights_running(s)
             THEN [s EXCEPT !.surplus = TRUE]
             ELSE query_insights_iteration(s, Last(ps))

(* One iteration of the loop of query_rules on the page `data`.             *)
query_rules_iteration(s, data) ==
    LET rem == query_rules_remaining(s.remaining, data.objects)
        stop == query_rules_break(data.hasNextPage)
    IN  [rules |-> IF Len(data.objects) > 0 THEN extend(s.rules, data.objects)
                   ELSE s.rules,
         remaining |-> rem,
         sent |-> Append(s.sent, <<s.pages, s.batchsize>>),
         pages |-> IF stop THEN s.pages
                   ELSE query_rules_next_offset(s.pages, s.batchsize, data.objects),
         batchsize |-> IF stop THEN s.batchsize ELSE query_rules_next_batchsize(rem),
         broke |-> stop,
         surplus |-> FALSE]

query_rules_running(s) == ~s.broke /\ s.remaining > 0

RECURSIVE query_rules_alone(_, _)
query_rules_alone(l, ps) ==
    IF ps = <<>> THEN
        [rules |-> <<>>, pages |-> 0, batchsize |-> query_rules_batchsize(l),
         remaining |-> l, sent |-> <<>>, broke |-> FALSE, surplus |-> FALSE]
    ELSE LET s == query_rules_alone(l, Front(ps))
         IN  IF s.surplus \/ ~query_rules_running(s)
             THEN [s EXCEPT !.surplus = TRUE]
             ELSE query_rules_iteration(s, Last(ps))

(* One iteration of the loop of get_insights on the page `data`.            *)
get_insights_iteration(s, data) ==
    [insights |-> accumulate(s.insights, data.objects),
     pages |-> s.pages + 1,
     sent |-> Append(s.sent, s.next_page_token),
     next_page_token |-> get_insights_next_page_token(s.next_page_token, data),
     broke |-> get_insights_break(data.nextPageToken),
     surplus |-> FALSE]

get_insights_running(M, s) == ~s.broke /\ s.pages < M

RECURSIVE get_insights_alone(_, _)
get_insights_alone(M, ps) ==
    IF ps = <<>> THEN
        [insights |-> <<>>, pages |-> 0, next_page_token |-> None, sent |-> <<>>,
         broke |-> FALSE, surplus |-> FALSE]
    ELSE LET s == get_insights_alone(M, Front(ps))
         IN  IF s.surplus \/ ~get_insights_running(M, s)
             THEN [s EXCEPT !.surplus = TRUE]
             ELSE get_insights_iteration(s, Last(ps))

(* The (offset, page size) pairs, respectively the tokens, of the requests. *)
Pairs(rs) == [k \in 1..Len(rs) |-> <<rs[k].offset, rs[k].limit>>]

TokensOf(rs) == [k \in 1..Len(rs) |-> rs[k].nextPageToken]

(* The requests rs of a call that has received the pages ps are those the   *)
(* run `s` over ps has sent, followed, when the call has issued a request   *)
(* it has no page for, by the request `next` the run goes on to.            *)
SameRequests(rs, ps, s, running, next) ==
    /\ ~s.surplus
    /\ Len(rs) \in {Len(ps), Len(ps) + 1}
    /\ SubSeq(rs, 1, Len(ps)) = s.sent
    /\ Len(rs) = Len(ps) + 1 => (running /\ Last(rs) = next)

(* Pages with the contents of their records erased: what is left is the     *)
(* number of records and the nextPageToken / hasNextPage of each page.      *)
Erased(ps) ==
    [k \in 1..Len(ps) |-> [ps[k] EXCEPT !.objects = [j \in 1..Len(@) |-> 0]]]

-----------------------------------------------------------------------------
(* aggregateByOffsetLimit, the reference algorithm query_insights is held   *)
(* against, as a function of the pages it is given.                         *)

aggregateByOffsetLimit_iteration(s, page, serverPageCap) ==
    LET ret == Len(page.objects)
        rem == s.remaining - ret
        stop == ret = 0 \/ ~page.hasNextPage
    IN  [records |-> s.records \o page.objects,
         remaining |-> rem,
         sent |-> Append(s.sent, <<s.offset, s.batchSize>>),
         offset |-> IF stop THEN s.offset ELSE s.offset + s.batchSize,
         batchSize |-> IF stop THEN s.batchSize ELSE Min(rem, serverPageCap),
         broke |-> stop,
         surplus |-> FALSE]

aggregateByOffsetLimit_running(s) == ~s.broke /\ s.remaining > 0

RECURSIVE aggregateByOffsetLimit(_, _, _)
aggregateByOffsetLimit(totalLimit, ps, serverPageCap) ==
    IF ps = <<>> THEN
        [records |-> <<>>, offset |-> 0, remaining |-> totalLimit,
         batchSize |-> Min(totalLimit, serverPageCap), sent |-> <<>>,
         broke |-> FALSE, surplus |-> FALSE]
    ELSE LET s == aggregateByOffsetLimit(totalLimit, Front(ps), serverPageCap)
         IN  IF s.surplus \/ ~aggregateByOffsetLimit_running(s)
             THEN [s EXCEPT !.surplus = TRUE]
             ELSE aggregateByOffsetLimit_iteration(s, Last(ps), serverPageCap)

(* C25: whatever the limit and the pages the server answers with, the       *)
(* requests query_insights has issued are the (offset, page size) requests  *)
(* aggregateByOffsetLimit with serverPageCap = 20 issues on the same pages, *)
(* it goes on to a further request exactly when aggregateByOffsetLimit does,*)
(* and the list it returns is the list aggregateByOffsetLimit returns.      *)
C25_QueryInsightsIsAggregateByOffsetLimit ==
    (op = "query_insights" /\ pc \in {"loop", "done", "failed"}) =>
        LET s == aggregateByOffsetLimit(limit, fetched, InsightsPageCap)
        IN  /\ SameRequests(Pairs(requests), fetched, s,
                            aggregateByOffsetLimit_running(s),
                            <<s.offset, s.batchSize>>)
            /\ pc = "loop" =>
                    /\ Len(requests) = Len(fetched)
                    /\ aggregateByOffsetLimit_running(s)
                           = query_insights_while(remaining)
            /\ pc = "done" =>
                    /\ ~aggregateByOffsetLimit_running(s)
                    /\ Len(requests) = Len(fetched)
                    /\ result = s.records

(* A call that was answered an empty page with hasNextPage true and a page  *)
(* longer than asked for, and has returned.                                 *)
C25_Witness ==
    /\ op = "query_insights"
    /\ pc = "done"
    /\ \E k \in 1..Len(fetched) : Len(fetched[k].objects) = 0 /\ fetched[k].hasNextPage
    /\ \E k \in 1..Len(fetched) : Len(fetched[k].objects) > requests[k].limit

(* C27: given the same limit and the same pages, query_rules and            *)
(* query_insights issue the same (offset, page size) requests, go on to the *)
(* same next request or both stop, and return the same list; the call that  *)
(* is running issues exactly those requests and returns exactly that list,  *)
(* query_insights to /insights and query_rules to /rules.                   *)
C27_QueryRulesIsQueryInsights ==
    (op \in OffsetAggregators /\ pc \in {"loop", "done", "failed"}) =>
        LET i == query_insights_alone(limit, fetched)
            r == query_rules_alone(limit, fetched)
        IN  /\ i.sent = r.sent
            /\ i.insights = r.rules
            /\ query_insights_running(i) = query_rules_running(r)
            /\ query_insights_running(i) =>
                    <<i.pages, i.batchsize>> = <<r.pages, r.batchsize>>
            /\ SameRequests(Pairs(requests), fetched, i, query_insights_running(i),
                            <<i.pages, i.batchsize>>)
            /\ pc = "done" =>
                    /\ ~query_rules_running(r)
                    /\ Len(requests) = Len(fetched)
                    /\ result = r.rules
            /\ \A k \in 1..Len(requests) :
                    requests[k].path = IF op = "query_rules" THEN "/rules"
                                       ELSE "/insights"

(* A query_rules call that took three requests, one of them answered with   *)
(* more records than asked for, and has returned.                           *)
C27_Witness ==
    /\ op = "query_rules"
    /\ pc = "done"
    /\ Len(requests) >= 3
    /\ \E k \in 1..Len(fetched) : Len(fetched[k].objects) > requests[k].limit

(* C22: the requests an aggregator has issued (their number, offsets, page  *)
(* sizes and tokens), the request it goes on to and the moment it stops are *)
(* those of a run on the same pages with the contents of the records        *)
(* erased: they are a function of the argument of the call and of the       *)
(* number of records, nextPageToken and hasNextPage of the pages alone.     *)
C22_RequestsIndependentOfRecordContents ==
    (op \in Aggregators /\ pc \in {"loop", "done", "failed"}) =>
        /\ op = "get_insights" =>
            LET s == get_insights_alone(max_pages, Erased(fetched))
            IN  /\ SameRequests(TokensOf(requests), fetched, s,
                                get_insights_running(max_pages, s), s.next_page_token)
                /\ pc = "done" => ~get_insights_running(max_pages, s)
                /\ pc = "loop" => next_page_token = s.next_page_token
        /\ op = "query_insights" =>
            LET s == query_insights_alone(limit, Erased(fetched))
            IN  /\ SameRequests(Pairs(requests), fetched, s,
                                query_insights_running(s), <<s.pages, s.batchsize>>)
                /\ pc = "done" => ~query_insights_running(s)
                /\ pc = "loop" => <<pages, batchsize>> = <<s.pages, s.batchsize>>
        /\ op = "query_rules" =>
            LET s == query_rules_alone(limit, Erased(fetched))
            IN  /\ SameRequests(Pairs(requests), fetched, s,
                                query_rules_running(s), <<s.pages, s.batchsize>>)
                /\ pc = "done" => ~query_rules_running(s)
                /\ pc = "loop" => <<pages, batchsize>> = <<s.pages, s.batchsize>>
        /\ \A k \in 1..Len(requests) : requests[k].q = q

(* A call that has received two pages whose records are not those of the    *)
(* erased pages, and has issued a third request.                            *)
C22_Witness ==
    /\ op \in Aggregators
    /\ Len(requests) >= 3
    /\ Len(fetched) >= 2
    /\ Erased(fetched) # fetched
    /\ Len(fetched[2].objects) > 0

C21_OffsetAggregatorsTerminate ==
    /\ [](op \in OffsetAggregators =>
            Len(requests) <= (IF limit > 0 THEN limit ELSE 0))
    /\ [][(op \in OffsetAggregators /\ op' = op /\ Len(requests') > Len(requests)) =>
            /\ remaining > 0
            /\ fetched # <<>> =>
                /\ Len(Last(fetched).objects) > 0
                /\ Last(fetched).hasNextPage]_vars
    /\ (op \in OffsetAggregators /\ pc = "loop") ~> (pc \in {"done", "failed"})

(* A call that was told on every page that there is a next page, received  *)
(* one record per page, and returned after as many requests as its limit.   *)
C21_Witness ==
    /\ op \in OffsetAggregators
    /\ pc = "done"
    /\ limit >= 3
    /\ Len(requests) = limit
    /\ \A k \in 1..Len(fetched) : fetched[k].hasNextPage

(* C23: with two calls of get_insights / query_insights on one client whose *)
(* page fetches interleave in any order and a server whose answer is a      *)
(* function of the request, each call, the running and the suspended one,   *)
(* issues the requests its loop issues on its own argument and its own      *)
(* pages, is answered each time with the page of its own request, and       *)
(* returns the list of its own pages: the requests and the list of the call *)
(* run alone.                                                               *)
C23_InterleavedCallsIndependent ==
    \A f \in {locals, other} :
        /\ f.op = "get_insights" /\ f.pc \in {"loop", "done"} =>
            LET s == get_insights_alone(f.max_pages, f.fetched)
            IN  /\ Len(f.requests) = Len(f.fetched)
                /\ SameRequests(TokensOf(f.requests), f.fetched, s,
                                get_insights_running(f.max_pages, s),
                                s.next_page_token)
                /\ \A k \in 1..Len(f.fetched) :
                        f.fetched[k] = TokenCollectionPage(f.requests[k].nextPageToken)
                /\ f.pc = "loop" => f.next_page_token = s.next_page_token
                /\ f.pc = "done" =>
                        ~get_insights_running(f.max_pages, s) /\ f.result = s.insights
        /\ f.op = "query_insights" /\ f.pc \in {"loop", "done"} =>
            LET s == query_insights_alone(f.limit, f.fetched)
            IN  /\ Len(f.requests) = Len(f.fetched)
                /\ SameRequests(Pairs(f.requests), f.fetched, s,
                                query_insights_running(s), <<s.pages, s.batchsize>>)
                /\ \A k \in 1..Len(f.fetched) :
                        LET o == f.requests[k].offset
                            n == Min(o + f.requests[k].limit, collection) - o
                        IN  f.fetched[k] =
                                OffsetPage(PageObjects(o, IF n > 0 THEN n ELSE 0),
                                           o + f.requests[k].limit < collection)
                /\ f.pc = "loop" => <<f.pages, f.batchsize>> = <<s.pages, s.batchsize>>
                /\ f.pc = "done" =>
                        ~query_insights_running(s) /\ f.result = s.insights
        /\ f.pc # "failed"

(* Two calls in the middle of their walks, a query_insights that has        *)
(* fetched two pages of three and a get_insights that has fetched two pages *)
(* of three, each with a fetch of its own still to come.                    *)
C23_Witness ==
    /\ op = "query_insights"
    /\ pc = "loop"
    /\ limit = MaxCollectionLimit
    /\ Len(requests) = 2
    /\ pages > 0
    /\ other.op = "get_insights"
    /\ other.pc = "loop"
    /\ Len(other.requests) = 2
    /\ other.next_page_token = "B"
    /\ other.max_pages > 2

====
